---- MODULE Spec2Model ----
(***************************************************************************)
(* A model of misc/python.ipynb: one Python kernel namespace, the three    *)
(* code cells of the notebook executed statement by statement, the class   *)
(* Person with its property `name`, and the call binding of the recorded   *)
(* signature of cross_validate.                                            *)
(***************************************************************************)
EXTENDS Integers, Sequences, FiniteSets, TLC

VARIABLES ns, heap, outs, pc, res, ctorArg, dirty, call

vars == <<ns, heap, outs, pc, res, ctorArg, dirty, call>>

(***************************************************************************)
(* Bounds                                                                  *)
(***************************************************************************)
\* number of cell executions in one kernel session
MaxRuns == 4
\* the highest object reference an interactive statement allocates
MaxObjs == 3
\* positional arguments of a call of cross_validate
MaxPos == 4
\* keyword arguments of a call of cross_validate
MaxKw == 2

(***************************************************************************)
(* Python values                                                           *)
(***************************************************************************)
Val(k, s, r) == [kind |-> k, s |-> s, ref |-> r]

Unbound == Val("unbound", "", 0)

None == Val("None", "", 0)

StrV(s) == Val("str", s, 0)

Fn(s) == Val("function", s, 0)

SigObj(s) == Val("Signature", s, 0)

Cls(s) == Val("class", s, 0)

Obj(r) == Val("object", "Person", r)

\* the names the three code cells read or bind
Names == {"cross_validate", "signature", "func_public", "_func_private", "Person", "person"}

\* the values the interactive statements pass to Person and assign
Values == {StrV("Alice"), StrV("Bob"), None}

(***************************************************************************)
(* The recorded signature of cross_validate                                *)
(***************************************************************************)
P(n, hasDefault, d, k) == [name |-> n, hasDefault |-> hasDefault, default |-> d, kind |-> k]

Params ==
  << P("estimator", FALSE, "", "POSITIONAL_OR_KEYWORD"),
     P("X", FALSE, "", "POSITIONAL_OR_KEYWORD"),
     P("y", TRUE, "None", "POSITIONAL_OR_KEYWORD"),
     P("groups", TRUE, "None", "KEYWORD_ONLY"),
     P("scoring", TRUE, "None", "KEYWORD_ONLY"),
     P("cv", TRUE, "None", "KEYWORD_ONLY"),
     P("n_jobs", TRUE, "None", "KEYWORD_ONLY"),
     P("verbose", TRUE, "0", "KEYWORD_ONLY"),
     P("fit_params", TRUE, "None", "KEYWORD_ONLY"),
     P("params", TRUE, "None", "KEYWORD_ONLY"),
     P("pre_dispatch", TRUE, "'2*n_jobs'", "KEYWORD_ONLY"),
     P("return_train_score", TRUE, "False", "KEYWORD_ONLY"),
     P("return_estimator", TRUE, "False", "KEYWORD_ONLY"),
     P("return_indices", TRUE, "False", "KEYWORD_ONLY"),
     P("error_score", TRUE, "nan", "KEYWORD_ONLY") >>

\* the line the notebook records as the output of the signature cell
RecordedSignature ==
  "(estimator, X, y=None, *, groups=None, scoring=None, cv=None, n_jobs=None, verbose=0, fit_params=None, params=None, pre_dispatch='2*n_jobs', return_train_score=False, return_estimator=False, return_indices=False, error_score=nan)"

\* the parameters of the function a Signature object describes
SignatureOf(s) == IF s = "cross_validate" THEN Params ELSE <<>>

FormatParam(p) == IF p.hasDefault THEN p.name \o "=" \o p.default ELSE p.name

\* a bare `*` is printed in front of the first keyword-only parameter
NeedsStar(ps, i) ==
  /\ ps[i].kind = "KEYWORD_ONLY"
  /\ \A j \in 1..(i - 1) : ps[j].kind # "KEYWORD_ONLY"

RECURSIVE JoinParams(_, _)
JoinParams(ps, i) ==
  IF i > Len(ps) THEN ""
  ELSE (IF i > 1 THEN ", " ELSE "")
       \o (IF NeedsStar(ps, i) THEN "*, " ELSE "")
       \o FormatParam(ps[i])
       \o JoinParams(ps, i + 1)

\* str(Signature)
FormatSignature(ps) == "(" \o JoinParams(ps, 1) \o ")"

(***************************************************************************)
(* Python semantics the cells rely on                                      *)
(***************************************************************************)
\* str(v), as print(v) writes it
Str(v) ==
  CASE v.kind = "str" -> v.s
    [] v.kind = "None" -> "None"
    [] v.kind = "Signature" -> FormatSignature(SignatureOf(v.s))
    [] v.kind = "function" -> "<function " \o v.s \o ">"
    [] v.kind = "class" -> "<class '__main__." \o v.s \o "'>"
    [] OTHER -> "<__main__." \o v.s \o " object>"

\* a class body whose property also has a setter and a deleter
PersonClassWritable == [name |-> [kind |-> "property", fget |-> TRUE, fset |-> TRUE, fdel |-> TRUE]]

\* the class body of Person: one property with a getter and nothing else
PersonClass == [name |-> [kind |-> "property", fget |-> TRUE, fset |-> FALSE, fdel |-> FALSE]]

Ret(v, h, o) == [exc |-> "", val |-> v, heap |-> h, out |-> o]

Exc(e, h) == [exc |-> e, val |-> None, heap |-> h, out |-> <<>>]

\* the reference of the next object allocated
Fresh(h) == IF DOMAIN h = {} THEN 1 ELSE (CHOOSE r \in DOMAIN h : \A q \in DOMAIN h : q <= r) + 1

\* a constructor that drops its argument
PersonInitNone(h, self, name) == (self :> [_name |-> None]) @@ h

\* Person.__init__(self, name), on the new instance self
PersonInit(h, self, name) == (self :> [_name |-> name]) @@ h

\* the objects some name of the namespace n refers to
Live(n) == {n[x].ref : x \in {y \in DOMAIN n : n[y].kind = "object"}}

\* an object no name refers to any more is freed
Collect(f, n) == [r \in DOMAIN f \cap Live(n) |-> f[r]]

\* a body that prints its line twice
FuncPublicBodyTwice == <<"This is public", "This is public">>

\* the body of func_public
FuncPublicBody == <<"This is public">>

\* the body of _func_private
FuncPrivateBody == <<"This is private">>

\* f(*args): the value returned, the lines printed and the heap afterwards
PyCall(f, args, h) ==
  CASE f.kind = "unbound" -> Exc("NameError", h)
    [] \E i \in 1..Len(args) : args[i].kind = "unbound" -> Exc("NameError", h)
    [] f = Fn("signature") ->
         IF Len(args) = 1 /\ args[1].kind \in {"function", "class"}
         THEN Ret(SigObj(args[1].s), h, <<>>)
         ELSE Exc("TypeError", h)
    [] f = Fn("func_public") ->
         IF Len(args) = 0 THEN Ret(None, h, FuncPublicBody) ELSE Exc("TypeError", h)
    [] f = Fn("_func_private") ->
         IF Len(args) = 0 THEN Ret(None, h, FuncPrivateBody) ELSE Exc("TypeError", h)
    [] f = Cls("Person") ->
         IF Len(args) = 1
         THEN Ret(Obj(Fresh(h)), PersonInit(h, Fresh(h), args[1]), <<>>)
         ELSE Exc("TypeError", h)
    [] OTHER -> Exc("TypeError", h)

\* the attributes the interactive statements touch
Attrs == {"name", "_name"}

\* a lookup in the instance dictionary of v
InstGet(v, a, h) ==
  IF a \in DOMAIN h[v.ref] THEN Ret(h[v.ref][a], h, <<>>) ELSE Exc("AttributeError", h)

\* a getter that returns a value fixed at class definition
NameGetterCached(self, h) == Ret(StrV("Alice"), h, <<>>)

\* the getter of Person.name: return self._name
NameGetter(self, h) == InstGet(self, "_name", h)

\* v.a
GetAttr(v, a, h) ==
  CASE v.kind = "unbound" -> Exc("NameError", h)
    [] v.kind # "object" -> Exc("AttributeError", h)
    [] a \in DOMAIN PersonClass ->
         IF PersonClass[a].fget THEN NameGetter(v, h) ELSE Exc("AttributeError", h)
    [] OTHER -> InstGet(v, a, h)

\* v.a = w
SetAttr(v, a, w, h) ==
  CASE v.kind = "unbound" -> Exc("NameError", h)
    [] v.kind # "object" -> Exc("AttributeError", h)
    [] a \in DOMAIN PersonClass ->
         IF PersonClass[a].fset
         THEN Ret(None, [h EXCEPT ![v.ref] = ("_name" :> w) @@ @], <<>>)
         ELSE Exc("AttributeError", h)
    [] OTHER -> Ret(None, [h EXCEPT ![v.ref] = (a :> w) @@ @], <<>>)

\* del v.a
DelAttr(v, a, h) ==
  CASE v.kind = "unbound" -> Exc("NameError", h)
    [] v.kind # "object" -> Exc("AttributeError", h)
    [] a \in DOMAIN PersonClass ->
         IF PersonClass[a].fdel
         THEN Ret(None, [h EXCEPT ![v.ref] = [b \in DOMAIN @ \ {"_name"} |-> @[b]]], <<>>)
         ELSE Exc("AttributeError", h)
    [] a \in DOMAIN h[v.ref] ->
         Ret(None, [h EXCEPT ![v.ref] = [b \in DOMAIN @ \ {a} |-> @[b]]], <<>>)
    [] OTHER -> Exc("AttributeError", h)

(***************************************************************************)
(* The kernel                                                              *)
(***************************************************************************)
Idle == [cell |-> 0, stmt |-> 0]

At(c, s) == pc = [cell |-> c, stmt |-> s]

NoRes == [op |-> "none", attr |-> "", arg |-> None, exc |-> "", val |-> None]

NoCall == [npos |-> 0, kws |-> {}, done |-> FALSE, exc |-> "", how |-> <<>>]

Init ==
  /\ ns = [n \in Names |-> Unbound]
  /\ heap = <<>>
  /\ outs = <<>>
  /\ pc = Idle
  /\ res = NoRes
  /\ ctorArg = <<>>
  /\ dirty = {}
  /\ call = NoCall

\* the output area of the execution in progress
Cur == Len(outs)

Emit(lines) == [outs EXCEPT ![Cur].text = @ \o lines]

\* an uncaught exception ends the cell and is recorded in its output
Raise(e) ==
  /\ outs' = [outs EXCEPT ![Cur].ename = e]
  /\ pc' = Idle

Goto(s) == pc' = [pc EXCEPT !.stmt = s]

\* the user runs code cell c (1: signature, 2: functions, 3: Person)
StartCell(c) ==
  /\ pc = Idle
  /\ Len(outs) < MaxRuns
  /\ pc' = [cell |-> c, stmt |-> 1]
  /\ outs' = Append(outs, [cell |-> c, text |-> <<>>, ename |-> ""])
  /\ UNCHANGED <<ns, heap, res, ctorArg, dirty, call>>

\* from sklearn.model_selection import cross_validate
ImportCrossValidate ==
  /\ At(1, 1)
  /\ ns' = [ns EXCEPT !["cross_validate"] = Fn("cross_validate")]
  /\ Goto(2)
  /\ UNCHANGED <<heap, outs, res, ctorArg, dirty, call>>

\* an import that keeps the name when it is already bound
ImportedSignatureKept(n) == IF n["signature"] = Unbound THEN Fn("signature") ELSE n["signature"]

\* the value `from inspect import signature` binds
ImportedSignature(n) == Fn("signature")

\* from inspect import signature
ImportSignature ==
  /\ At(1, 2)
  /\ ns' = [ns EXCEPT !["signature"] = ImportedSignature(ns)]
  /\ Goto(3)
  /\ UNCHANGED <<heap, outs, res, ctorArg, dirty, call>>

\* the call with its result bound to no name of the cell
CallSignatureNoRebind ==
  /\ At(1, 3)
  /\ LET r == PyCall(ns["signature"], <<ns["cross_validate"]>>, heap) IN
       IF r.exc = ""
       THEN /\ Goto(4)
            /\ UNCHANGED outs
       ELSE Raise(r.exc)
  /\ UNCHANGED <<ns, heap, res, ctorArg, dirty, call>>

\* signature = signature(cross_validate)
CallSignature ==
  /\ At(1, 3)
  /\ LET r == PyCall(ns["signature"], <<ns["cross_validate"]>>, heap) IN
       IF r.exc = ""
       THEN /\ ns' = [ns EXCEPT !["signature"] = r.val]
            /\ Goto(4)
            /\ UNCHANGED outs
       ELSE /\ Raise(r.exc)
            /\ UNCHANGED ns
  /\ UNCHANGED <<heap, res, ctorArg, dirty, call>>

\* print(signature)
PrintSignature ==
  /\ At(1, 4)
  /\ IF ns["signature"] = Unbound
     THEN Raise("NameError")
     ELSE /\ outs' = Emit(<<Str(ns["signature"])>>)
          /\ pc' = Idle
  /\ UNCHANGED <<ns, heap, res, ctorArg, dirty, call>>

\* the function defined under the name of the first cell
DefFuncPublicAsSignature ==
  /\ At(2, 1)
  /\ ns' = [ns EXCEPT !["signature"] = Fn("func_public")]
  /\ Goto(2)
  /\ UNCHANGED <<heap, outs, res, ctorArg, dirty, call>>

\* def func_public(): ...
DefFuncPublic ==
  /\ At(2, 1)
  /\ ns' = [ns EXCEPT !["func_public"] = Fn("func_public")]
  /\ Goto(2)
  /\ UNCHANGED <<heap, outs, res, ctorArg, dirty, call>>

\* a definition the underscore hides from the namespace
DefFuncPrivateHidden ==
  /\ At(2, 2)
  /\ Goto(3)
  /\ UNCHANGED <<ns, heap, outs, res, ctorArg, dirty, call>>

\* def _func_private(): ...
DefFuncPrivate ==
  /\ At(2, 2)
  /\ ns' = [ns EXCEPT !["_func_private"] = Fn("_func_private")]
  /\ Goto(3)
  /\ UNCHANGED <<heap, outs, res, ctorArg, dirty, call>>

\* func_public()
CallFuncPublic ==
  /\ At(2, 3)
  /\ LET r == PyCall(ns["func_public"], <<>>, heap) IN
       IF r.exc = ""
       THEN /\ outs' = Emit(r.out)
            /\ Goto(4)
       ELSE Raise(r.exc)
  /\ UNCHANGED <<ns, heap, res, ctorArg, dirty, call>>

\* _func_private()
CallFuncPrivate ==
  /\ At(2, 4)
  /\ LET r == PyCall(ns["_func_private"], <<>>, heap) IN
       IF r.exc = ""
       THEN /\ outs' = Emit(r.out)
            /\ pc' = Idle
       ELSE Raise(r.exc)
  /\ UNCHANGED <<ns, heap, res, ctorArg, dirty, call>>

\* class Person: ...
DefPerson ==
  /\ At(3, 1)
  /\ ns' = [ns EXCEPT !["Person"] = Cls("Person")]
  /\ Goto(2)
  /\ UNCHANGED <<heap, outs, res, ctorArg, dirty, call>>

\* the constructor called without its argument
NewAliceNoArg ==
  /\ At(3, 2)
  /\ LET r == PyCall(ns["Person"], <<>>, heap) IN
       IF r.exc = ""
       THEN /\ ns' = [ns EXCEPT !["person"] = r.val]
            /\ heap' = Collect(r.heap, ns')
            /\ ctorArg' = Collect((r.val.ref :> StrV("Alice")) @@ ctorArg, ns')
            /\ dirty' = dirty \cap Live(ns')
            /\ Goto(3)
            /\ UNCHANGED outs
       ELSE /\ Raise(r.exc)
            /\ UNCHANGED <<ns, heap, ctorArg, dirty>>
  /\ UNCHANGED <<res, call>>

\* person = Person("Alice")
NewAlice ==
  /\ At(3, 2)
  /\ LET r == PyCall(ns["Person"], <<StrV("Alice")>>, heap) IN
       IF r.exc = ""
       THEN /\ ns' = [ns EXCEPT !["person"] = r.val]
            /\ heap' = Collect(r.heap, ns')
            /\ ctorArg' = Collect((r.val.ref :> StrV("Alice")) @@ ctorArg, ns')
            /\ dirty' = dirty \cap Live(ns')
            /\ Goto(3)
            /\ UNCHANGED outs
       ELSE /\ Raise(r.exc)
            /\ UNCHANGED <<ns, heap, ctorArg, dirty>>
  /\ UNCHANGED <<res, call>>

\* print(person.name)
PrintName ==
  /\ At(3, 3)
  /\ LET r == GetAttr(ns["person"], "name", heap) IN
       IF r.exc = ""
       THEN /\ outs' = Emit(<<Str(r.val)>>)
            /\ pc' = Idle
       ELSE Raise(r.exc)
  /\ UNCHANGED <<ns, heap, res, ctorArg, dirty, call>>

(***************************************************************************)
(* Statements on Person typed into the idle kernel                         *)
(***************************************************************************)
Result(op, a, w, r) == [op |-> op, attr |-> a, arg |-> w, exc |-> r.exc, val |-> r.val]

\* person = Person(v)
NewPerson(v) ==
  /\ pc = Idle
  /\ Fresh(heap) <= MaxObjs
  /\ LET r == PyCall(ns["Person"], <<v>>, heap) IN
       /\ res' = Result("new", "", v, r)
       /\ IF r.exc = ""
          THEN /\ ns' = [ns EXCEPT !["person"] = r.val]
               /\ heap' = Collect(r.heap, ns')
               /\ ctorArg' = Collect((r.val.ref :> v) @@ ctorArg, ns')
               /\ dirty' = dirty \cap Live(ns')
          ELSE UNCHANGED <<ns, heap, ctorArg, dirty>>
  /\ UNCHANGED <<outs, pc, call>>

\* person.a
GetStmt(a) ==
  /\ pc = Idle
  /\ LET r == GetAttr(ns["person"], a, heap) IN
       /\ res' = Result("get", a, ns["person"], r)
       /\ heap' = r.heap
  /\ UNCHANGED <<ns, outs, pc, ctorArg, dirty, call>>

\* the objects whose _name a successful statement on attribute a has written
Written(a, r) == IF r.exc = "" /\ a = "_name" THEN {ns["person"].ref} ELSE {}

\* person.a = w
SetStmt(a, w) ==
  /\ pc = Idle
  /\ LET r == SetAttr(ns["person"], a, w, heap) IN
       /\ res' = Result("set", a, w, r)
       /\ heap' = r.heap
       /\ dirty' = dirty \cup Written(a, r)
  /\ UNCHANGED <<ns, outs, pc, ctorArg, call>>

\* del person.a
DelStmt(a) ==
  /\ pc = Idle
  /\ LET r == DelAttr(ns["person"], a, heap) IN
       /\ res' = Result("del", a, None, r)
       /\ heap' = r.heap
       /\ dirty' = dirty \cup Written(a, r)
  /\ UNCHANGED <<ns, outs, pc, ctorArg, call>>

(***************************************************************************)
(* Binding the arguments of a call to the recorded signature               *)
(***************************************************************************)
ParamNames == {Params[i].name : i \in 1..Len(Params)}

\* the keywords a call may use: every parameter name and one that is none
KwNames == ParamNames \cup {"bogus"}

\* every parameter reachable by position, as if there were no `*`
PositionalAll(ps) == 1..Len(ps)

\* the parameters a positional argument can reach: those in front of the `*`
Positional(ps) == {i \in 1..Len(ps) : ps[i].kind = "POSITIONAL_OR_KEYWORD"}

\* how parameter i gets its value in a call with npos positional arguments
\* and the keyword arguments kws
HowBound(ps, i, npos, kws) ==
  CASE i \in Positional(ps) /\ i <= npos -> "positional"
    [] ps[i].name \in kws -> "keyword"
    [] ps[i].hasDefault -> "default"
    [] OTHER -> "missing"

\* cross_validate(*args, **kws) against the parameters ps
Bind(ps, npos, kws) ==
  LET how == [i \in 1..Len(ps) |-> HowBound(ps, i, npos, kws)]
      tooMany == npos > Cardinality(Positional(ps))
      unexpected == \E k \in kws : \A i \in 1..Len(ps) : ps[i].name # k
      multiple == \E i \in Positional(ps) : i <= npos /\ ps[i].name \in kws
      missing == \E i \in 1..Len(ps) : how[i] = "missing"
  IN IF tooMany \/ unexpected \/ multiple \/ missing
     THEN [exc |-> "TypeError", how |-> <<>>]
     ELSE [exc |-> "", how |-> how]

Calls ==
  {[npos |-> n, kws |-> k, done |-> FALSE, exc |-> "", how |-> <<>>] :
     n \in 0..MaxPos, k \in {K \in SUBSET KwNames : Cardinality(K) <= MaxKw}}

InitBind ==
  /\ ns = [n \in Names |-> Unbound]
  /\ heap = <<>>
  /\ outs = <<>>
  /\ pc = Idle
  /\ res = NoRes
  /\ ctorArg = <<>>
  /\ dirty = {}
  /\ call \in Calls

\* the call is made
BindCall ==
  /\ ~call.done
  /\ LET b == Bind(Params, call.npos, call.kws) IN
       call' = [call EXCEPT !.done = TRUE, !.exc = b.exc, !.how = b.how]
  /\ UNCHANGED <<ns, heap, outs, pc, res, ctorArg, dirty>>

(***************************************************************************)
(* Specifications                                                          *)
(***************************************************************************)
\* the three code cells, run in any order
Next ==
  \/ \E c \in 1..3 : StartCell(c)
  \/ ImportCrossValidate
  \/ ImportSignature
  \/ CallSignature
  \/ PrintSignature
  \/ DefFuncPublic
  \/ DefFuncPrivate
  \/ CallFuncPublic
  \/ CallFuncPrivate
  \/ DefPerson
  \/ NewAlice
  \/ PrintName

Spec == Init /\ [][Next]_vars

\* the Person cell and statements on the class it defines
NextPerson ==
  \/ StartCell(3)
  \/ DefPerson
  \/ NewAlice
  \/ PrintName
  \/ \E v \in Values : NewPerson(v)
  \/ \E a \in Attrs : GetStmt(a)
  \/ \E a \in Attrs, w \in Values : SetStmt(a, w)
  \/ \E a \in Attrs : DelStmt(a)

SpecPerson == Init /\ [][NextPerson]_vars

\* calls of cross_validate
NextBind == BindCall

SpecBind == InitBind /\ [][NextBind]_vars

\* a statement of a running cell
StmtStep ==
  \/ ImportCrossValidate
  \/ ImportSignature
  \/ CallSignature
  \/ PrintSignature
  \/ DefFuncPublic
  \/ DefFuncPrivate
  \/ CallFuncPublic
  \/ CallFuncPrivate
  \/ DefPerson
  \/ NewAlice
  \/ PrintName

\* the kernel runs a started cell statement after statement
FairSpec == Init /\ [][Next]_vars /\ WF_vars(StmtStep)

(***************************************************************************)
(* Properties of the class Person                                          *)
(***************************************************************************)
\* execution i has run to its end
Done(i) == i < Len(outs) \/ pc = Idle

\* the output the notebook records for each code cell
Recorded(c) ==
  CASE c = 1 -> <<RecordedSignature>>
    [] c = 2 -> <<"This is public", "This is private">>
    [] c = 3 -> <<"Alice">>

\* C1: while no statement has written its _name, reading the name of a
\* Person returns the constructor's argument, on every read; the Person
\* cell prints the single line Alice.
C1_NameReturnsCtorArg ==
  /\ \A r \in DOMAIN heap \ dirty :
       GetAttr(Obj(r), "name", heap) = Ret(ctorArg[r], heap, <<>>)
  /\ (/\ res.op = "get"
      /\ res.attr = "name"
      /\ res.arg.kind = "object"
      /\ res.arg.ref \in DOMAIN heap \ dirty)
       => res.exc = "" /\ res.val = ctorArg[res.arg.ref]
  /\ \A i \in 1..Len(outs) :
       outs[i].cell = 3 /\ Done(i) => outs[i].text = <<"Alice">> /\ outs[i].ename = ""

C1_Witness ==
  /\ res.op = "get"
  /\ res.attr = "name"
  /\ res.exc = ""
  /\ res.val = StrV("Bob")
  /\ res.arg.kind = "object"
  /\ res.arg.ref \in DOMAIN heap \ dirty
  /\ \E i \in 1..Len(outs) : outs[i].text = <<"Alice">>

\* an assignment to, or a deletion of, the attribute name of the person
WriteName == (\E w \in Values : SetStmt("name", w)) \/ DelStmt("name")

\* C2: assigning to p.name or deleting p.name raises AttributeError and
\* leaves p._name, and what p.name returns, unchanged.
C2_NameIsReadOnly ==
  [][(ns["person"].kind = "object" /\ WriteName) =>
       /\ res'.exc = "AttributeError"
       /\ heap' = heap
       /\ InstGet(ns'["person"], "_name", heap') = InstGet(ns["person"], "_name", heap)
       /\ GetAttr(ns'["person"], "name", heap') = GetAttr(ns["person"], "name", heap)]_vars

C2_Witness ==
  /\ res.op = "set"
  /\ res.attr = "name"
  /\ res.arg = StrV("Bob")
  /\ res.exc = "AttributeError"
  /\ ns["person"].kind = "object"
  /\ heap[ns["person"].ref]._name = StrV("Alice")

\* C9: p.name always equals the current p._name; reading p.name changes
\* nothing; p._name = w succeeds and the next read of p.name gives w.
C9_NameTracksPrivate ==
  /\ [](\A r \in DOMAIN heap :
          LET viaName == GetAttr(Obj(r), "name", heap)
              direct == InstGet(Obj(r), "_name", heap)
          IN viaName.exc = direct.exc /\ viaName.val = direct.val)
  /\ [][(\E a \in Attrs : GetStmt(a)) => heap' = heap]_vars
  /\ [][\A w \in Values :
          (ns["person"].kind = "object" /\ SetStmt("_name", w)) =>
            /\ res'.exc = ""
            /\ GetAttr(ns'["person"], "name", heap') = Ret(w, heap', <<>>)]_vars

C9_Witness ==
  /\ res.op = "get"
  /\ res.attr = "name"
  /\ res.exc = ""
  /\ res.arg.kind = "object"
  /\ res.arg.ref \in dirty
  /\ res.arg.ref \in DOMAIN ctorArg
  /\ res.val # ctorArg[res.arg.ref]

(***************************************************************************)
(* Properties of the code cells                                            *)
(***************************************************************************)
\* the cells executed so far, in order
Executed == [i \in 1..Len(outs) |-> outs[i].cell]

RECURSIVE Flatten(_, _)
Flatten(o, i) == IF i > Len(o) THEN <<>> ELSE o[i].text \o Flatten(o, i + 1)

\* everything written to standard output so far
Stdout == Flatten(outs, 1)

IsPrefix(a, b) == Len(a) <= Len(b) /\ SubSeq(b, 1, Len(a)) = a

\* a statement can be issued, or the functions cell is at one of its calls
CanCall == pc = Idle \/ At(2, 3) \/ At(2, 4)

\* C3: each of the two functions is callable without arguments and prints
\* its one fixed line on every call; wherever func_public() succeeds,
\* _func_private() succeeds as well.
C3_BothCallable ==
  /\ \A i \in 1..Len(outs) :
       outs[i].cell = 2 /\ Done(i) =>
         outs[i].text = <<"This is public", "This is private">> /\ outs[i].ename = ""
  /\ At(2, 4) => outs[Cur].text = <<"This is public">>
  /\ CanCall /\ PyCall(ns["func_public"], <<>>, heap).exc = "" =>
       /\ PyCall(ns["func_public"], <<>>, heap) = Ret(None, heap, <<"This is public">>)
       /\ PyCall(ns["_func_private"], <<>>, heap) = Ret(None, heap, <<"This is private">>)

C3_Witness ==
  /\ pc = Idle
  /\ Len(outs) >= 2
  /\ outs[1].cell = 2
  /\ outs[2].cell = 2
  /\ outs[2].text = <<"This is public", "This is private">>

\* a step of the signature cell
Cell1Step ==
  StartCell(1) \/ ImportCrossValidate \/ ImportSignature \/ CallSignature \/ PrintSignature

\* the signature cell was the last to run and has ended
AfterCell1 == pc = Idle /\ Len(outs) > 0 /\ outs[Len(outs)].cell = 1

\* C4 as stated: after the signature cell has run, the name signature
\* still denotes the function of inspect.
C4_SignatureStillFunction == AfterCell1 => ns["signature"] = Fn("signature")

\* C4 amended: the signature cell changes nothing but its output and the
\* two names it binds, it calls inspect's function and never
\* cross_validate, and it leaves signature bound to the Signature object
\* of cross_validate.
C4_OnlyBindsItsNames ==
  /\ [][Cell1Step =>
          /\ \A n \in Names \ {"cross_validate", "signature"} : ns'[n] = ns[n]
          /\ heap' = heap
          /\ ns'["cross_validate"] \in {ns["cross_validate"], Fn("cross_validate")}]_vars
  /\ [](At(1, 3) => ns["signature"] = Fn("signature"))
  /\ [](AfterCell1 =>
          /\ ns["signature"] = SigObj("cross_validate")
          /\ ns["cross_validate"] = Fn("cross_validate")
          /\ outs[Len(outs)].text = <<RecordedSignature>>)

C4_Witness ==
  /\ AfterCell1
  /\ ns["signature"] = SigObj("cross_validate")
  /\ ns["person"].kind = "object"
  /\ ns["func_public"] = Fn("func_public")

\* the names each code cell reads or binds
Footprint(c) ==
  CASE c = 1 -> {"cross_validate", "signature"}
    [] c = 2 -> {"func_public", "_func_private"}
    [] c = 3 -> {"Person", "person"}

\* C5: the cells touch disjoint sets of names, and in every order of
\* execution each cell prints what it prints alone in a fresh namespace.
C5_CellsIndependent ==
  /\ [](\A c, d \in 1..3 : c # d => Footprint(c) \cap Footprint(d) = {})
  /\ [][\A c \in 1..3 :
          pc.cell = c \/ pc'.cell = c => \A n \in Names \ Footprint(c) : ns'[n] = ns[n]]_vars
  /\ [](\A i \in 1..Len(outs) : Done(i) => outs[i].text = Recorded(outs[i].cell))

C5_Witness ==
  /\ pc = Idle
  /\ Executed = <<3, 1, 2>>
  /\ \A i \in 1..3 : outs[i].text = Recorded(outs[i].cell)

\* C8: run once from top to bottom, the cells write the signature line,
\* This is public, This is private and Alice, in this order and once each;
\* This is public never comes after This is private within the second cell.
C8_TopToBottomOutput ==
  /\ IsPrefix(Executed, <<1, 2, 3>>) =>
       IsPrefix(Stdout, <<RecordedSignature, "This is public", "This is private", "Alice">>)
  /\ Executed = <<1, 2, 3>> /\ pc = Idle =>
       Stdout = <<RecordedSignature, "This is public", "This is private", "Alice">>
  /\ \A i \in 1..Len(outs) :
       outs[i].cell = 2 => IsPrefix(outs[i].text, <<"This is public", "This is private">>)

C8_Witness ==
  /\ Executed = <<1, 2, 3>>
  /\ pc = Idle
  /\ Len(Stdout) = 4

\* C10: every execution of the signature cell imports signature again
\* before calling it, so each one succeeds, prints the same line and ends
\* with the same bindings of the cell's names.
C10_SignatureCellIdempotent ==
  /\ At(1, 3) => ns["signature"] = Fn("signature") /\ ns["cross_validate"] = Fn("cross_validate")
  /\ \A i, j \in 1..Len(outs) :
       outs[i].cell = 1 /\ outs[j].cell = 1 /\ Done(i) /\ Done(j) =>
         outs[i].ename = "" /\ outs[j] = outs[i]
  /\ AfterCell1 =>
       [n \in Footprint(1) |-> ns[n]] =
         [n \in Footprint(1) |-> IF n = "signature" THEN SigObj("cross_validate") ELSE Fn(n)]

C10_Witness ==
  /\ pc = Idle
  /\ Len(outs) >= 2
  /\ outs[Len(outs)].cell = 1
  /\ outs[Len(outs) - 1].cell = 1
  /\ outs[Len(outs)].text = <<RecordedSignature>>

\* C6: whatever cells are run, in whatever order and how often, no
\* statement raises an exception and every started cell runs to its end.
C6_CellsCannotFail ==
  /\ [](\A i \in 1..Len(outs) : outs[i].ename = "")
  /\ [](\A i \in 1..Len(outs) : Done(i) => Len(outs[i].text) = Len(Recorded(outs[i].cell)))
  /\ (pc # Idle) ~> (pc = Idle)

C6_Witness ==
  /\ pc = Idle
  /\ Executed = <<1, 1, 3, 3>>
  /\ \A i \in 1..Len(outs) : outs[i].ename = ""

(***************************************************************************)
(* Properties of the recorded signature                                    *)
(***************************************************************************)
\* the parameters printed before the `*`
BeforeStar == {i \in 1..Len(Params) : \A j \in 1..i : Params[j].kind # "KEYWORD_ONLY"}

\* the parameters printed after the `*`
AfterStar == (1..Len(Params)) \ BeforeStar

\* the call has no fault other than, possibly, its positional arguments
WellFormedKws ==
  /\ call.kws \subseteq ParamNames
  /\ \A i \in BeforeStar : ~Params[i].hasDefault => (i <= call.npos) # (Params[i].name \in call.kws)
  /\ \A i \in BeforeStar : ~(i <= call.npos /\ Params[i].name \in call.kws)

\* C7: estimator, X and y are bound by position or by keyword; the twelve
\* parameters after the `*` are bound by keyword only, and a call with more
\* than three positional arguments is rejected.
C7_KeywordOnlyAfterStar ==
  call.done =>
    /\ {Params[i].name : i \in BeforeStar} = {"estimator", "X", "y"}
    /\ Cardinality(AfterStar) = 12
    /\ call.npos > 3 => call.exc = "TypeError"
    /\ call.npos <= 3 /\ WellFormedKws => call.exc = ""
    /\ call.exc = "" =>
         /\ \A i \in AfterStar :
              call.how[i] = (IF Params[i].name \in call.kws THEN "keyword" ELSE "default")
         /\ \A i \in BeforeStar :
              call.how[i] = (CASE i <= call.npos -> "positional"
                               [] Params[i].name \in call.kws -> "keyword"
                               [] OTHER -> "default")

C7_Witness ==
  /\ call.done
  /\ call.npos = 4
  /\ call.kws = {}
  /\ call.exc = "TypeError"

====
